---- MODULE Spec2Model ----
(***************************************************************************)
(* Model of roman_datamodels.core._base.BaseDataModel:                     *)
(*   - the validation-pause scope (pause_validation, __setitem__,          *)
(*     set_validate_setitem) over the class-level model_config;            *)
(*   - the default synthesizer (make_default);                             *)
(*   - the tree serializer (to_asdf_tree) and the flattener (flat_items).  *)
(***************************************************************************)
EXTENDS Integers, Sequences, FiniteSets, TLC

VARIABLES
  \* validation-pause scope
  model_config, validate_setitem, fields, scopes, last,
  \* default synthesizer: the model class, the call's arguments, its result
  md_model, md_data, md_kwargs, md_result,
  \* tree serializer and flattener: the instance, the call, its result
  tr_root, tr_result

pause_vars == <<model_config, validate_setitem, fields, scopes, last>>

md_vars == <<md_model, md_data, md_kwargs, md_result>>

tr_vars == <<tr_root, tr_result>>

vars == <<pause_vars, md_vars, tr_vars>>

(***************************************************************************)
(* Python values.  Every value is a record of one shape, so that any two   *)
(* values can be compared: kind names the python type, num and str carry a *)
(* scalar's payload (for a model instance: its object id and class), items *)
(* the elements of a container (a dict's items are its key/value pairs, in *)
(* insertion order).                                                       *)
(***************************************************************************)

V(kind, num, str, items) == [kind |-> kind, num |-> num, str |-> str, items |-> items]

NoneV == V("none", 0, "", <<>>)

\* PydanticUndefined: the field declares no static default.
Undefined == V("undefined", 0, "", <<>>)

Num(n) == V("num", n, "", <<>>)

Str(s) == V("str", 0, s, <<>>)

Bool(b) == V("bool", IF b THEN 1 ELSE 0, "", <<>>)

\* An Enum member of class cls whose value is the string s.
EnumV(cls, s) == V("enum", 0, s, <<Str(cls)>>)

\* A value the model does not look into (an array, a transform, ...).
Opaque(s) == V("object", 0, s, <<>>)

List(xs) == V("list", 0, "", xs)

Pair(k, v) == V("pair", 0, "", <<k, v>>)

Dict(es) == V("dict", 0, "", es)

EmptyDict == Dict(<<>>)

\* An instance of model class cls with object id and its fields as pairs.
ModelV(cls, id, es) == V("model", id, cls, es)

\* A raised exception, as the result of a call.
ErrorV(s) == V("error", 0, s, <<>>)

IsError(v) == v.kind = "error"

KeyAt(d, i) == d.items[i].items[1]

ValueAt(d, i) == d.items[i].items[2]

Has(d, k) == \E i \in 1..Len(d.items) : KeyAt(d, i) = k

Get(d, k) == ValueAt(d, CHOOSE i \in 1..Len(d.items) : KeyAt(d, i) = k)

\* d[k] = v on an insertion-ordered dict.
Put(d, k, v) ==
  IF Has(d, k)
  THEN [d EXCEPT !.items = [i \in 1..Len(d.items) |->
                              IF KeyAt(d, i) = k THEN Pair(k, v) ELSE d.items[i]]]
  ELSE [d EXCEPT !.items = Append(d.items, Pair(k, v))]

(***************************************************************************)
(* Part 1: validation-pause scope                                          *)
(***************************************************************************)

\* Deepest nesting of open pause_validation() blocks that is explored.
MaxDepth == 2

\* Two live instances, a and b, of the one model class.
Instances == {"a", "b"}

\* The model has two declared fields: name: str and count: int.
FieldNames == {"name", "count"}

FieldType == [name |-> "str", count |-> "int"]

\* Candidate values, each standing for a value of one python type.
Values == {"a_str", "an_int"}

TypeOf(v) == IF v = "a_str" THEN "str" ELSE "int"

\* A value is type-compatible with a field iff it has the field's type.
ValidFor(k, v) == TypeOf(v) = FieldType[k]

\* Full validation of an instance: every field holds a compatible value.
InstanceValid(fs) == \A k \in FieldNames : ValidFor(k, fs[k])

\* model_config as written in the class body: both flags enabled.
EnabledConfig == [validate_assignment |-> TRUE, revalidate_instances |-> "always"]

\* What pause_validation writes before yielding to the block.
PausedConfig == [validate_assignment |-> FALSE, revalidate_instances |-> "never"]

\* Outcome record of the operation that ran last (observation only).
NoOp ==
  [op |-> "init", self |-> "", key |-> "", value |-> "", raised |-> FALSE,
   block_raised |-> FALSE, revalidate_on_exit |-> FALSE,
   warnings |-> 0, revalidations |-> 0, seen |-> EnabledConfig,
   pre |-> EnabledConfig, flag |-> TRUE, unchanged |-> TRUE,
   open_self |-> FALSE, open_other |-> FALSE, invalid_at_exit |-> FALSE]

\* Is a pause_validation() block of instance i open in the scope stack s?
OpenOn(s, i) == \E n \in 1..Len(s) : s[n].self = i

OpenOnOther(s, i) == \E n \in 1..Len(s) : s[n].self # i

\* setattr(self, key, value) on a pydantic model: with validate_assignment the
\* value is validated first and an incompatible one raises before any store.
SetAttrRaises(cfg, k, v) == cfg.validate_assignment /\ ~ValidFor(k, v)

SetAttrFields(cfg, fs, k, v) ==
  IF SetAttrRaises(cfg, k, v) THEN fs ELSE [fs EXCEPT ![k] = v]

\* self.model_validate(self): revalidates the instance only under
\* revalidate_instances = "always"; returns how many revalidations ran and
\* whether one raised.
ModelValidate(cfg, fs) ==
  [revalidations |-> IF cfg.revalidate_instances = "always" THEN 1 ELSE 0,
   raised |-> cfg.revalidate_instances = "always" /\ ~InstanceValid(fs),
   seen |-> cfg]

\* Entry half of pause_validation (up to the yield).
PauseEnterConfig(cfg) ==
  [cfg EXCEPT !.validate_assignment = FALSE, !.revalidate_instances = "never"]

\* The flags written first in the finally clause of pause_validation.
PauseRestoreConfig(cfg) ==
  [cfg EXCEPT !.validate_assignment = TRUE, !.revalidate_instances = "always"]

\* Faulty variant: the revalidation runs before the flags are restored.
PauseExitRevalidateFirst(cfg, fs, revalidate_on_exit) ==
  LET mv == IF revalidate_on_exit THEN ModelValidate(cfg, fs)
            ELSE [revalidations |-> 0, raised |-> FALSE, seen |-> cfg]
  IN  [cfg |-> PauseRestoreConfig(cfg), revalidations |-> mv.revalidations,
       raised |-> mv.raised, seen |-> mv.seen]

\* Exit half of pause_validation (the finally clause): restore both flags,
\* then revalidate if asked.  seen is the config model_validate ran under.
PauseExit(cfg, fs, revalidate_on_exit) ==
  LET restored == PauseRestoreConfig(cfg)
      mv == IF revalidate_on_exit THEN ModelValidate(restored, fs)
            ELSE [revalidations |-> 0, raised |-> FALSE, seen |-> restored]
  IN  [cfg |-> restored, revalidations |-> mv.revalidations,
       raised |-> mv.raised, seen |-> mv.seen]

\* Faulty variant: __setitem__ ignores _validate_setitem and never pauses.
SetItemAlwaysValidates(cfg, flag, fs, k, v) ==
  [cfg |-> cfg, fields |-> SetAttrFields(cfg, fs, k, v),
   raised |-> SetAttrRaises(cfg, k, v), warnings |-> 0,
   revalidations |-> 0]

\* __setitem__: a nullcontext when _validate_setitem, otherwise one warning and
\* a pause_validation(revalidate_on_exit=False) scope around the setattr.
SetItemResult(cfg, flag, fs, k, v) ==
  IF flag
  THEN [cfg |-> cfg, fields |-> SetAttrFields(cfg, fs, k, v),
        raised |-> SetAttrRaises(cfg, k, v), warnings |-> 0,
        revalidations |-> 0]
  ELSE LET inner == PauseEnterConfig(cfg)
           fs2 == SetAttrFields(inner, fs, k, v)
           ex == PauseExit(inner, fs2, FALSE)
       IN  [cfg |-> ex.cfg, fields |-> fs2,
            raised |-> SetAttrRaises(inner, k, v) \/ ex.raised,
            warnings |-> 1, revalidations |-> ex.revalidations]

PauseInit ==
  /\ model_config = EnabledConfig
  /\ validate_setitem = [i \in Instances |-> TRUE]
  /\ fields = [i \in Instances |-> [name |-> "a_str", count |-> "an_int"]]
  /\ scopes = <<>>
  /\ last = NoOp

\* The default synthesizer and the serializers are not running.
DefaultIdle ==
  /\ md_model = <<>>
  /\ md_data = NoneV
  /\ md_kwargs = ""
  /\ md_result = NoneV

TreeIdle ==
  /\ tr_root = NoneV
  /\ tr_result = NoneV

Init == PauseInit /\ DefaultIdle /\ TreeIdle

\* with self.pause_validation(revalidate_on_exit=r): ... (entry)
PauseValidationEnter(i, r) ==
  /\ Len(scopes) < MaxDepth
  /\ model_config' = PauseEnterConfig(model_config)
  /\ scopes' = Append(scopes, [self |-> i, revalidate_on_exit |-> r])
  /\ last' = [NoOp EXCEPT !.op = "enter", !.self = i, !.pre = model_config,
                          !.revalidate_on_exit = r,
                          !.open_self = OpenOn(scopes, i),
                          !.open_other = OpenOnOther(scopes, i)]
  /\ UNCHANGED <<validate_setitem, fields, md_vars, tr_vars>>

\* The innermost open block ends, normally or by an exception (block_raised).
PauseValidationExit(block_raised) ==
  /\ scopes # <<>>
  /\ LET top == scopes[Len(scopes)]
         ex == PauseExit(model_config, fields[top.self], top.revalidate_on_exit)
         rest == SubSeq(scopes, 1, Len(scopes) - 1)
     IN  /\ model_config' = ex.cfg
         /\ scopes' = rest
         /\ last' = [NoOp EXCEPT !.op = "exit", !.self = top.self,
                                 !.pre = model_config,
                                 !.block_raised = block_raised,
                                 !.revalidate_on_exit = top.revalidate_on_exit,
                                 !.raised = ex.raised,
                                 !.revalidations = ex.revalidations,
                                 !.seen = ex.seen,
                                 !.open_self = OpenOn(rest, top.self),
                                 !.open_other = OpenOnOther(rest, top.self),
                                 !.invalid_at_exit = ~InstanceValid(fields[top.self])]
  /\ UNCHANGED <<validate_setitem, fields, md_vars, tr_vars>>

\* instance.key = value (attribute assignment).
SetAttr(i, k, v) ==
  /\ fields' = [fields EXCEPT ![i] = SetAttrFields(model_config, fields[i], k, v)]
  /\ last' = [NoOp EXCEPT !.op = "setattr", !.self = i, !.key = k, !.value = v,
                          !.pre = model_config,
                          !.raised = SetAttrRaises(model_config, k, v),
                          !.flag = validate_setitem[i],
                          !.unchanged = (fields' = fields),
                          !.open_self = OpenOn(scopes, i),
                          !.open_other = OpenOnOther(scopes, i)]
  /\ UNCHANGED <<model_config, validate_setitem, scopes, md_vars, tr_vars>>

\* instance[key] = value (item assignment).
SetItem(i, k, v) ==
  LET r == SetItemResult(model_config, validate_setitem[i], fields[i], k, v)
  IN  /\ model_config' = r.cfg
      /\ fields' = [fields EXCEPT ![i] = r.fields]
      /\ last' = [NoOp EXCEPT !.op = "setitem", !.self = i, !.key = k, !.value = v,
                              !.pre = model_config,
                              !.raised = r.raised,
                              !.warnings = r.warnings,
                              !.revalidations = r.revalidations,
                              !.flag = validate_setitem[i],
                              !.unchanged = (fields' = fields),
                              !.open_self = OpenOn(scopes, i),
                              !.open_other = OpenOnOther(scopes, i)]
      /\ UNCHANGED <<validate_setitem, scopes, md_vars, tr_vars>>

\* instance.set_validate_setitem(value)
SetValidateSetitem(i, b) ==
  /\ validate_setitem' = [validate_setitem EXCEPT ![i] = b]
  /\ last' = [NoOp EXCEPT !.op = "set_validate_setitem", !.self = i,
                          !.pre = model_config, !.flag = b,
                          !.open_self = OpenOn(scopes, i),
                          !.open_other = OpenOnOther(scopes, i)]
  /\ UNCHANGED <<model_config, fields, scopes, md_vars, tr_vars>>

Next ==
  \/ \E i \in Instances, r \in BOOLEAN : PauseValidationEnter(i, r)
  \/ \E b \in BOOLEAN : PauseValidationExit(b)
  \/ \E i \in Instances, k \in FieldNames, v \in Values : SetAttr(i, k, v)
  \/ \E i \in Instances, k \in FieldNames, v \in Values : SetItem(i, k, v)
  \/ \E i \in Instances, b \in BOOLEAN : SetValidateSetitem(i, b)

Spec == Init /\ [][Next]_vars

(***************************************************************************)
(* Part 2: the default synthesizer, BaseDataModel.make_default             *)
(***************************************************************************)

\* Most fields of a generated model class.
MaxFields == 2

\* The default of int and float fields.
DefaultNumber == -999999

\* A field of a model class (pydantic FieldInfo plus its name): default is
\* the static default or Undefined, adaptor whether a PydanticAdaptor is bound
\* to it, origin and args what get_origin and get_args give for the
\* annotation, type what annotation_type resolves the annotation to.
Field(name, default, adaptor, origin, args, type) ==
  [name |-> name, default |-> default, adaptor |-> adaptor,
   origin |-> origin, args |-> args, type |-> type]

Plain(name, type) == Field(name, Undefined, FALSE, "none", <<>>, type)

ModelTypes == {"Model", "Inner", "Deep"}

EnumTypes == {"Mode"}

\* The members' values of the enumerations, in declaration order.
EnumMembers(t) == <<"WFI_IMAGE", "WFI_GRISM">>

\* field_name: the external name of a field whose python name had to avoid a
\* keyword.
FieldName(name) == IF name = "pass_" THEN "pass" ELSE name

\* The two nested model classes used by the fields below.
DeepSchema == <<Plain("z", "float"), Plain("ok", "bool")>>

InnerSchema == <<Plain("x", "int"), Plain("label", "str"), Plain("deep", "Deep")>>

\* cls.model_fields; "Model" is the class make_default is called on.
Schema(cls) ==
  IF cls = "Model" THEN md_model
  ELSE IF cls = "Inner" THEN InnerSchema
  ELSE DeepSchema

\* get_adaptor(field) is not None
GetAdaptor(field) == field.adaptor

\* adaptor.make_default(**kwargs): an adaptor-made value that records the
\* keyword arguments it was built from.
AdaptorMakeDefault(field, kwargs) == V("adaptor", 0, kwargs, <<>>)

ReadPattern ==
  List(<<List(<<Num(1)>>), List(<<Num(2), Num(3)>>), List(<<Num(4)>>),
         List(<<Num(5), Num(6), Num(7), Num(8)>>), List(<<Num(9), Num(10)>>),
         List(<<Num(11)>>)>>)

\* make_default.special_cases
SpecialCases(name) ==
  IF name = "read_pattern" THEN ReadPattern
  ELSE IF name = "p_exptype" THEN Str("WFI_IMAGE|WFI_GRISM|WFI_PRISM|")
  ELSE IF name = "coordinate_distortion_transform" THEN Opaque("Shift(1) & Shift(2)")
  ELSE IF name = "tweakreg_catalog_name" THEN Str("filename_tweakreg_catalog.asdf")
  ELSE NoneV

PhotTableKeys ==
  <<Str("F062"), Str("F087"), Str("F106"), Str("F129"), Str("F146"), Str("F158"),
    Str("F184"), Str("F213"), Str("GRISM"), Str("PRISM"), Str("DARK")>>

RECURSIVE MakeDefault(_, _, _)
RECURSIVE Construct(_, _)
RECURSIVE ValidateAs(_, _)
RECURSIVE ModelDump(_)
RECURSIVE MergeDicts(_, _)

\* make_default.get_default
GetDefault(field_type, kwargs) ==
  IF field_type \in ModelTypes THEN MakeDefault(field_type, NoneV, kwargs)
  ELSE IF field_type = "float" \/ field_type = "int" THEN Num(DefaultNumber)
  ELSE IF field_type = "str" THEN Str("dummy value")
  ELSE IF field_type = "bool" THEN Bool(FALSE)
  ELSE IF field_type \in EnumTypes THEN Str(EnumMembers(field_type)[1])
  ELSE NoneV

\* Faulty variant: the list default ignores the annotation's type arguments.
DefaultListEmpty(field, kwargs) == List(<<>>)

\* make_default.default_list
DefaultList(field, kwargs) ==
  List([i \in 1..Len(field.args) |-> GetDefault(field.args[i], kwargs)])

\* make_default.default_dict
DefaultDict(field, name, kwargs) ==
  LET key_type == field.args[1]
      value_type == field.args[2]
      keys == IF name = "phot_table" THEN PhotTableKeys
              ELSE <<GetDefault(key_type, kwargs)>>
  IN  Dict([i \in 1..Len(keys) |-> Pair(keys[i], GetDefault(value_type, kwargs))])

Assign(value) == [assign |-> TRUE, value |-> value]

\* Faulty variant: the special-case table is consulted before the adaptor.
FieldDefaultSpecialFirst(field, name, kwargs) ==
  IF field.default # Undefined /\ field.default # NoneV THEN Assign(field.default)
  ELSE IF SpecialCases(name) # NoneV THEN Assign(SpecialCases(name))
  ELSE IF GetAdaptor(field) THEN Assign(AdaptorMakeDefault(field, kwargs))
  ELSE IF field.origin = "dict" THEN Assign(DefaultDict(field, name, kwargs))
  ELSE IF field.origin = "list" THEN Assign(DefaultList(field, kwargs))
  ELSE LET value == GetDefault(field.type, kwargs)
       IN  [assign |-> value # NoneV, value |-> value]

\* One pass of the loop over cls.model_fields: the value assigned to
\* defaults[name], or no assignment at all.
FieldDefault(field, name, kwargs) ==
  IF field.default # Undefined /\ field.default # NoneV THEN Assign(field.default)
  ELSE IF GetAdaptor(field) THEN Assign(AdaptorMakeDefault(field, kwargs))
  ELSE IF SpecialCases(name) # NoneV THEN Assign(SpecialCases(name))
  ELSE IF field.origin = "dict" THEN Assign(DefaultDict(field, name, kwargs))
  ELSE IF field.origin = "list" THEN Assign(DefaultList(field, kwargs))
  ELSE LET value == GetDefault(field.type, kwargs)
       IN  [assign |-> value # NoneV, value |-> value]

RECURSIVE BuildDefaults(_, _, _, _)

\* The loop that builds the defaults dict, continued from field i.
BuildDefaults(model_fields, i, defaults, kwargs) ==
  IF i > Len(model_fields) THEN defaults
  ELSE LET field == model_fields[i]
           name == FieldName(field.name)
           r == FieldDefault(field, name, kwargs)
       IN  BuildDefaults(model_fields, i + 1,
                         IF r.assign THEN Put(defaults, Str(name), r.value)
                         ELSE defaults,
                         kwargs)

Defaults(cls, kwargs) == BuildDefaults(Schema(cls), 1, EmptyDict, kwargs)

\* Validation of a value against a resolved type; the validated value, or an
\* error.  A nested model is built from a dict or revalidated from an instance.
ValidateAs(type, v) ==
  IF type \in ModelTypes
  THEN IF v.kind = "dict" THEN Construct(type, v)
       ELSE IF v.kind = "model" /\ v.str = type THEN Construct(type, Dict(v.items))
       ELSE ErrorV("ValidationError")
  ELSE IF type = "list_int"
  THEN IF v.kind = "list" /\ \A i \in 1..Len(v.items) : v.items[i].kind = "num"
       THEN v ELSE ErrorV("ValidationError")
  ELSE IF \/ type \in {"int", "float"} /\ v.kind = "num"
          \/ type = "str" /\ v.kind = "str"
          \/ type = "bool" /\ v.kind = "bool"
          \/ type = "bytes" /\ v.kind = "bytes"
          \/ type \in EnumTypes /\ v.kind = "str"
             /\ \E i \in 1..Len(EnumMembers(type)) : EnumMembers(type)[i] = v.str
       THEN v ELSE ErrorV("ValidationError")

\* Validation of a value against a field's annotation.
ValidateField(field, v) ==
  IF v = NoneV /\ field.default = NoneV THEN v
  ELSE IF field.adaptor
  THEN IF v.kind = "adaptor" THEN v ELSE ErrorV("ValidationError")
  ELSE IF field.origin = "list"
  THEN IF v.kind # "list" THEN ErrorV("ValidationError")
       ELSE LET xs == [i \in 1..Len(v.items) |->
                         IF field.args = <<>> THEN v.items[i]
                         ELSE ValidateAs(field.args[1], v.items[i])]
            IN  IF \E i \in 1..Len(xs) : IsError(xs[i])
                THEN ErrorV("ValidationError") ELSE List(xs)
  ELSE IF field.origin = "dict"
  THEN IF v.kind # "dict" THEN ErrorV("ValidationError")
       ELSE LET ks == [i \in 1..Len(v.items) |-> ValidateAs(field.args[1], KeyAt(v, i))]
                xs == [i \in 1..Len(v.items) |-> ValidateAs(field.args[2], ValueAt(v, i))]
            IN  IF \E i \in 1..Len(xs) : IsError(xs[i]) \/ IsError(ks[i])
                THEN ErrorV("ValidationError")
                ELSE Dict([i \in 1..Len(xs) |-> Pair(ks[i], xs[i])])
  ELSE ValidateAs(field.type, v)

\* The key under which a dict of keyword arguments names a field: its python
\* name or, with populate_by_name, its external name.
KeyOf(d, field) ==
  IF Has(d, Str(field.name)) THEN Str(field.name) ELSE Str(FieldName(field.name))

\* cls(**d): every declared field is validated from d or takes its static
\* default, a required field that is missing is an error, and keys that name
\* no field are kept (extra="allow").
Construct(cls, d) ==
  LET fs == Schema(cls)
      vals == [i \in 1..Len(fs) |->
                 IF Has(d, KeyOf(d, fs[i])) THEN ValidateField(fs[i], Get(d, KeyOf(d, fs[i])))
                 ELSE IF fs[i].default # Undefined THEN fs[i].default
                 ELSE ErrorV("ValidationError")]
      IsExtra(p) == \A i \in 1..Len(fs) :
                      p.items[1] # Str(fs[i].name) /\ p.items[1] # Str(FieldName(fs[i].name))
  IN  IF \E i \in 1..Len(fs) : IsError(vals[i]) THEN ErrorV("ValidationError")
      ELSE ModelV(cls, 0, [i \in 1..Len(fs) |-> Pair(Str(fs[i].name), vals[i])]
                          \o SelectSeq(d.items, IsExtra))

\* instance.model_dump(): nested model instances become dicts.
ModelDump(v) ==
  IF v.kind = "model"
  THEN Dict([i \in 1..Len(v.items) |-> Pair(KeyAt(v, i), ModelDump(ValueAt(v, i)))])
  ELSE IF v.kind = "dict"
  THEN Dict([i \in 1..Len(v.items) |-> Pair(KeyAt(v, i), ModelDump(ValueAt(v, i)))])
  ELSE IF v.kind = "list"
  THEN List([i \in 1..Len(v.items) |-> ModelDump(v.items[i])])
  ELSE v

RECURSIVE MergeFrom(_, _, _)

\* merge_dicts, continued from item i of the overriding dict.
MergeFrom(a, b, i) ==
  IF i > Len(b.items) THEN a
  ELSE LET k == KeyAt(b, i)
           v == ValueAt(b, i)
       IN  MergeFrom(IF Has(a, k) /\ Get(a, k).kind = "dict" /\ v.kind = "dict"
                     THEN Put(a, k, MergeDicts(Get(a, k), v))
                     ELSE Put(a, k, v),
                     b, i + 1)

\* merge_dicts(a, b): b's values win; two dicts under one key are merged
\* recursively, any other value replaces what was there.
MergeDicts(a, b) == MergeFrom(a, b, 1)

\* data or {}
DataOrEmpty(data) == IF data = NoneV \/ data = EmptyDict THEN EmptyDict ELSE data

\* Faulty variant: the defaults are merged over the supplied data.
MakeDefaultDefaultsWin(cls, data, kwargs) ==
  LET provisional == Construct(cls, Defaults(cls, kwargs))
  IN  IF IsError(provisional) THEN provisional
      ELSE Construct(cls, MergeDicts(DataOrEmpty(data), ModelDump(provisional)))

\* The last statement of make_default:
\* cls(**merge_dicts(cls(**defaults).model_dump(), data or {}))
MakeDefault(cls, data, kwargs) ==
  LET provisional == Construct(cls, Defaults(cls, kwargs))
  IN  IF IsError(provisional) THEN provisional
      ELSE Construct(cls, MergeDicts(ModelDump(provisional), DataOrEmpty(data)))

\* ---- the model classes and calls that are explored

DeepPreset == ModelV("Deep", 0, <<Pair(Str("z"), Num(2)), Pair(Str("ok"), Bool(TRUE))>>)

InnerPreset ==
  ModelV("Inner", 0, <<Pair(Str("x"), Num(1)), Pair(Str("label"), Str("preset")),
                       Pair(Str("deep"), DeepPreset)>>)

\* The annotated fields a model class is assembled from, in a fixed order.
FieldPool ==
  <<Field("tags", Undefined, FALSE, "list", <<"str">>, "str"),
    Field("bare", Undefined, FALSE, "list", <<>>, "list"),
    Plain("inner", "Inner"),
    Plain("blob", "bytes"),
    Field("phot_table", Undefined, FALSE, "dict", <<"str", "Deep">>, "Deep"),
    Field("read_pattern", Undefined, FALSE, "list", <<"list_int">>, "list_int"),
    Plain("mode", "Mode"),
    Plain("pass_", "str"),
    Field("table", Undefined, FALSE, "dict", <<"str", "int">>, "int")>>

\* A static default that is valid for pool field n.
PresetOf(n) ==
  LET name == FieldPool[n].name
  IN  IF name = "pass_" THEN Str("preset")
      ELSE IF name \in {"tags", "bare"} THEN List(<<Str("preset")>>)
      ELSE IF name = "inner" THEN InnerPreset
      ELSE IF name = "blob" THEN V("bytes", 0, "preset", <<>>)
      ELSE IF name = "phot_table" THEN Dict(<<Pair(Str("F062"), DeepPreset)>>)
      ELSE IF name = "read_pattern" THEN List(<<List(<<Num(1)>>)>>)
      ELSE IF name = "mode" THEN Str("WFI_GRISM")
      ELSE Dict(<<Pair(Str("k"), Num(1))>>)

\* How a field is declared: with no default, with a None default, with a
\* static default, and with or without an adaptor.
Variants == {"required", "optional", "preset", "adaptor", "adaptor_preset"}

Declared(n, variant) ==
  [FieldPool[n] EXCEPT
     !.default = IF variant = "optional" THEN NoneV
                 ELSE IF variant = "preset" THEN PresetOf(n)
                 ELSE IF variant = "adaptor_preset" THEN V("adaptor", 0, "preset", <<>>)
                 ELSE Undefined,
     !.adaptor = variant \in {"adaptor", "adaptor_preset"}]

\* The spec's example: name: str, count: int, tags: List[str], no defaults.
ExampleModel == <<Plain("name", "str"), Plain("count", "int"), FieldPool[1]>>

\* Model classes of up to MaxFields pool fields, in pool order, at most one of
\* them declared otherwise than as a plain required field.
GeneratedModels ==
  UNION {
    { [i \in 1..len |-> Declared(pick[i], variant[i])] :
        pick \in {q \in [1..len -> 1..Len(FieldPool)] :
                    \A i \in 1..len, j \in 1..len : i < j => q[i] < q[j]},
        variant \in {w \in [1..len -> Variants] :
                       \A i \in 1..len, j \in 1..len :
                         i # j => (w[i] = "required" \/ w[j] = "required")} }
    : len \in 1..MaxFields }

\* Values a caller may override a field with, each valid for the field.
Overrides(field) ==
  IF field.adaptor THEN <<V("adaptor", 0, "override", <<>>)>>
  ELSE IF field.name \in {"name", "pass_"} THEN <<Str("M1")>>
  ELSE IF field.name = "count" THEN <<Num(7)>>
  ELSE IF field.name \in {"tags", "bare"} THEN <<List(<<Str("t1"), Str("t2")>>)>>
  ELSE IF field.name = "inner"
       THEN <<Dict(<<Pair(Str("x"), Num(5))>>),
              Dict(<<Pair(Str("deep"), Dict(<<Pair(Str("z"), Num(1))>>))>>)>>
  ELSE IF field.name = "blob" THEN <<V("bytes", 0, "raw", <<>>)>>
  ELSE IF field.name = "phot_table"
       THEN <<Dict(<<Pair(Str("F062"), Dict(<<Pair(Str("z"), Num(3))>>))>>)>>
  ELSE IF field.name = "read_pattern" THEN <<List(<<List(<<Num(1), Num(2)>>)>>)>>
  ELSE IF field.name = "mode" THEN <<Str("WFI_GRISM")>>
  ELSE <<Dict(<<Pair(Str("F1"), Num(3))>>)>>

RECURSIVE DataFrom(_, _, _, _)

\* The override dict that gives field i its choice[i]-th override (0: none).
DataFrom(model_fields, choice, i, d) ==
  IF i > Len(model_fields) THEN d
  ELSE DataFrom(model_fields, choice, i + 1,
                IF choice[i] = 0 THEN d
                ELSE Put(d, Str(model_fields[i].name),
                         Overrides(model_fields[i])[choice[i]]))

\* The data arguments explored for a model class: None, every dict that
\* overrides some of its fields, and the dicts of at most one override with a
\* further key that names no field.
DataChoices(model_fields) ==
  LET choices == {c \in [1..Len(model_fields) -> 0..2] :
                    \A i \in 1..Len(model_fields) :
                      c[i] <= Len(Overrides(model_fields[i]))}
      dicts == {DataFrom(model_fields, c, 1, EmptyDict) : c \in choices}
  IN  {NoneV} \cup dicts
      \cup {Put(d, Str("note"), Str("extra")) : d \in {e \in dicts : Len(e.items) <= 1}}

KwargsChoices == {"", "shape"}

DefaultInit ==
  /\ md_model \in GeneratedModels \cup {ExampleModel}
  /\ md_data = NoneV
  /\ md_kwargs = ""
  /\ md_result = NoneV

\* Model.make_default(data=data, **kwargs); the result pairs the value of the
\* call (an instance or the error raised) with the defaults dict it built.
MakeDefaultCall(data, kwargs) ==
  /\ md_result = NoneV
  /\ md_data' = data
  /\ md_kwargs' = kwargs
  /\ md_result' = Pair(MakeDefault("Model", data, kwargs), Defaults("Model", kwargs))
  /\ UNCHANGED <<md_model, pause_vars, tr_vars>>

DefaultNext ==
  \E data \in DataChoices(md_model), kwargs \in KwargsChoices :
    MakeDefaultCall(data, kwargs)

InitDefault == PauseInit /\ TreeIdle /\ DefaultInit

SpecDefault == InitDefault /\ [][DefaultNext]_vars

\* The call has returned or raised.
MdDone == md_result # NoneV

MdValue == md_result.items[1]

MdDefaults == md_result.items[2]

(***************************************************************************)
(* Part 3: the tree serializer (to_asdf_tree) and the flattener            *)
(* (flat_items)                                                            *)
(***************************************************************************)

\* Longest list held by a field of the instance.
MaxLen == 2

\* The model classes that are DataModel subclasses (tagged for ASDF).
TaggedClasses == {"Tagged"}

\* isinstance(field, BaseDataModel)
IsBaseDataModel(v) == v.kind = "model"

\* isinstance(field, DataModel)
IsDataModel(v) == v.kind = "model" /\ v.str \in TaggedClasses

RECURSIVE ToAsdfTree(_)
RECURSIVE RecurseTree(_)
RECURSIVE RecurseTreeIntoTags(_)

\* Faulty variant: the serializer does not stop at tagged instances.
RecurseTreeIntoTags(field) ==
  IF IsBaseDataModel(field) THEN ToAsdfTree(field)
  ELSE IF field.kind = "dict"
  THEN Dict([i \in 1..Len(field.items) |->
               Pair(KeyAt(field, i), RecurseTreeIntoTags(ValueAt(field, i)))])
  ELSE IF field.kind = "list"
  THEN List([i \in 1..Len(field.items) |-> RecurseTreeIntoTags(field.items[i])])
  ELSE IF field.kind = "enum" THEN Str(field.str)
  ELSE field

\* to_asdf_tree.recurse_tree
RecurseTree(field) ==
  IF IsBaseDataModel(field) /\ ~IsDataModel(field) THEN ToAsdfTree(field)
  ELSE IF field.kind = "dict"
  THEN Dict([i \in 1..Len(field.items) |->
               Pair(KeyAt(field, i), RecurseTree(ValueAt(field, i)))])
  ELSE IF field.kind = "list"
  THEN List([i \in 1..Len(field.items) |-> RecurseTree(field.items[i])])
  ELSE IF field.kind = "enum" THEN Str(field.str)
  ELSE field

\* to_asdf_tree: a new dict of the instance's fields, each replaced by its
\* sub-tree, under the fields' external names.
ToAsdfTree(self) ==
  Dict([i \in 1..Len(self.items) |->
          Pair(Str(FieldName(KeyAt(self, i).str)), RecurseTree(ValueAt(self, i)))])

\* The instance after to_asdf_tree: the sub-trees are stored into the copy
\* dict(self), never into the instance.
InstanceAfterToAsdfTree(self) == self

\* str(name) of a path element.
StrOf(v) == IF v.kind = "num" THEN ToString(v.num) ELSE v.str

RECURSIVE Join(_)

\* ".".join(str(name) for name in path)
Join(path) ==
  IF path = <<>> THEN ""
  ELSE IF Len(path) = 1 THEN StrOf(path[1])
  ELSE StrOf(path[1]) \o "." \o Join(Tail(path))

RECURSIVE Concat(_)

\* The items of a sequence of sequences, in order (yield from, in a loop).
Concat(seqs) == IF seqs = <<>> THEN <<>> ELSE Head(seqs) \o Concat(Tail(seqs))

RECURSIVE Recurse(_, _, _)
RECURSIVE RecurseOneBased(_, _, _)

\* Faulty variant: list elements are numbered from 1.
RecurseOneBased(field, path, flatten_lists) ==
  IF IsBaseDataModel(field) \/ field.kind = "dict"
  THEN Concat([i \in 1..Len(field.items) |->
                 RecurseOneBased(ValueAt(field, i), Append(path, KeyAt(field, i)),
                                 flatten_lists)])
  ELSE IF field.kind = "list" /\ flatten_lists
  THEN Concat([i \in 1..Len(field.items) |->
                 RecurseOneBased(field.items[i], Append(path, Num(i)), flatten_lists)])
  ELSE IF field.kind = "enum" THEN RecurseOneBased(Str(field.str), path, flatten_lists)
  ELSE <<Pair(Str(Join(path)), field)>>

\* flat_items.recurse: the (path, value) pairs yielded for a field, in order.
Recurse(field, path, flatten_lists) ==
  IF IsBaseDataModel(field)
  THEN Concat([i \in 1..Len(field.items) |->
                 Recurse(ValueAt(field, i), Append(path, KeyAt(field, i)), flatten_lists)])
  ELSE IF field.kind = "dict"
  THEN Concat([i \in 1..Len(field.items) |->
                 Recurse(ValueAt(field, i), Append(path, KeyAt(field, i)), flatten_lists)])
  ELSE IF field.kind = "list" /\ flatten_lists
  THEN Concat([i \in 1..Len(field.items) |->
                 Recurse(field.items[i], Append(path, Num(i - 1)), flatten_lists)])
  ELSE IF field.kind = "enum" THEN Recurse(Str(field.str), path, flatten_lists)
  ELSE <<Pair(Str(Join(path)), field)>>

\* flat_items(flatten_lists=...), run to exhaustion.
FlatItems(self, flatten_lists) == List(Recurse(self, <<>>, flatten_lists))

\* ---- the instances and calls that are explored

Leaves == {Num(1), Str("a")}

\* The lists of at most MaxLen leaves.
LeafLists == UNION {{List(xs) : xs \in [1..n -> Leaves]} : n \in 0..MaxLen}

\* A nested instance that is not tagged, holding a list.
Untagged(id, list) ==
  ModelV("Inner", id, <<Pair(Str("x"), Num(5)), Pair(Str("tags"), list)>>)

\* A tagged instance, holding an untagged one and an enum member.
TaggedInstance ==
  ModelV("Tagged", 3, <<Pair(Str("sub"), Untagged(4, List(<<Str("a")>>))),
                        Pair(Str("mode"), EnumV("Mode", "WFI_GRISM"))>>)

\* The values a field of the root instance may hold.
FieldValues ==
  Leaves \cup LeafLists
  \cup {EnumV("Mode", "WFI_IMAGE"), TaggedInstance}
  \cup {Untagged(2, l) : l \in LeafLists}
  \cup {Dict(<<Pair(Str("k1"), Untagged(2, List(<<Num(1)>>))), Pair(Str("k2"), TaggedInstance)>>),
        List(<<TaggedInstance, Untagged(2, List(<<>>)), EnumV("Mode", "WFI_IMAGE")>>)}

TreeInit ==
  /\ tr_root \in {ModelV("Model", 1, <<Pair(Str("pass_"), f1), Pair(Str("data"), f2)>>) :
                    f1 \in FieldValues, f2 \in FieldValues}
  /\ tr_result = NoneV

\* tree = instance.to_asdf_tree(); the result keeps the tree and the instance
\* as it was before the call.
ToAsdfTreeCall ==
  /\ tr_result' = V("to_asdf_tree", 0, "", <<ToAsdfTree(tr_root), tr_root>>)
  /\ tr_root' = InstanceAfterToAsdfTree(tr_root)
  /\ UNCHANGED <<pause_vars, md_vars>>

\* items = list(instance.flat_items(flatten_lists=flatten_lists))
FlatItemsCall(flatten_lists) ==
  /\ tr_result' = V("flat_items", IF flatten_lists THEN 1 ELSE 0, "",
                    <<FlatItems(tr_root, flatten_lists), tr_root>>)
  /\ UNCHANGED <<tr_root, pause_vars, md_vars>>

TreeNext ==
  \/ ToAsdfTreeCall
  \/ \E flatten_lists \in BOOLEAN : FlatItemsCall(flatten_lists)

InitTree == PauseInit /\ DefaultIdle /\ TreeInit

SpecTree == InitTree /\ [][TreeNext]_vars

(***************************************************************************)
(* Properties of the validation-pause scope (specification Spec)           *)
(***************************************************************************)

LastAssigns == last.op \in {"setattr", "setitem"}

LastInvalid == LastAssigns /\ ~ValidFor(last.key, last.value)

LastStored == fields[last.self][last.key] = last.value

\* C1 (as claimed): inside a pause_validation() block of an instance an invalid
\* assignment to it never raises; an exit with revalidate_on_exit revalidates
\* exactly once and raises on an invalid instance; an exit without it performs
\* no revalidation and does not raise.
C1_Claim ==
  /\ (LastInvalid /\ last.open_self) => ~last.raised
  /\ (last.op = "exit" /\ last.revalidate_on_exit)
       => (last.revalidations = 1 /\ (last.invalid_at_exit => last.raised))
  /\ (last.op = "exit" /\ ~last.revalidate_on_exit)
       => (last.revalidations = 0 /\ ~last.raised)

\* The exit half of C1 alone (holds of the code).
C1_ExitPart ==
  /\ (last.op = "exit" /\ last.revalidate_on_exit)
       => (last.revalidations = 1 /\ (last.invalid_at_exit <=> last.raised))
  /\ (last.op = "exit" /\ ~last.revalidate_on_exit)
       => (last.revalidations = 0 /\ ~last.raised)

\* C2: every exit of a pause_validation() block (normal, by an exception of
\* the block, or with the exit revalidation raising) leaves both flags enabled,
\* and the exit revalidation already runs under the restored flags.
C2_FlagsRestored ==
  /\ last.op = "exit" =>
       /\ model_config = EnabledConfig
       /\ last.revalidate_on_exit =>
            (last.seen = EnabledConfig /\ last.revalidations = 1)
  /\ (last.op = "setitem" /\ ~last.flag) => model_config = EnabledConfig

\* C2 witness: a block that ended by an exception and whose exit revalidation
\* raised as well, entered while the flags were paused.
C2_Witness ==
  /\ last.op = "exit" /\ last.block_raised /\ last.raised
  /\ last.pre = PausedConfig

\* C3 (as claimed): item assignment of an incompatible value raises and leaves
\* the instance unchanged iff _validate_setitem is true; otherwise it stores the
\* value with exactly one warning, no raise and no revalidation.
C3_Original ==
  (last.op = "setitem" /\ LastInvalid) =>
    IF last.flag
    THEN last.raised /\ last.unchanged
    ELSE ~last.raised /\ last.warnings = 1 /\ LastStored /\ last.revalidations = 0

\* C3 (amended): item assignment validates iff _validate_setitem is true and
\* validate_assignment is enabled when it runs; with the flag false it stores
\* the value with exactly one warning, no raise and no revalidation.
C3_Amended ==
  (last.op = "setitem" /\ LastInvalid) =>
    /\ (last.flag /\ last.pre.validate_assignment)
         => (last.raised /\ last.unchanged /\ last.warnings = 0)
    /\ (last.flag /\ ~last.pre.validate_assignment)
         => (~last.raised /\ LastStored /\ last.warnings = 0)
    /\ ~last.flag
         => (~last.raised /\ last.warnings = 1 /\ LastStored
             /\ last.revalidations = 0)

\* C3 witness: an unvalidated item assignment stored an incompatible value
\* while validation was otherwise enabled; the instance now fails validation.
C3_Witness ==
  /\ last.op = "setitem" /\ LastInvalid /\ ~last.flag
  /\ last.pre.validate_assignment
  /\ ~InstanceValid(fields[last.self])

\* C4 (as claimed): while only another instance has a pause scope open, an
\* invalid assignment to this instance is still validated and rejected.
C4_Claim ==
  (LastInvalid /\ ~last.open_self /\ last.open_other
     /\ (last.op = "setitem" => last.flag))
    => last.raised

\* C10 (as claimed): while an outer pause_validation() block of an instance is
\* open, the end of an inner scope of the same instance (a nested block or an
\* unvalidated item assignment) leaves validation paused.
C10_Claim ==
  (last.op \in {"exit", "setitem"} /\ last.open_self /\ ~last.open_other
     /\ (last.op = "setitem" => ~last.flag))
    => model_config = PausedConfig

(***************************************************************************)
(* Properties of the default synthesizer (specification SpecDefault)       *)
(***************************************************************************)

RECURSIVE LeafPaths(_)

\* The key paths of a nested dict that end at a value that is not a dict.
LeafPaths(d) ==
  IF d.kind # "dict" THEN {<<>>}
  ELSE UNION {{<<KeyAt(d, i)>> \o q : q \in LeafPaths(ValueAt(d, i))} :
                i \in 1..Len(d.items)}

Missing == V("missing", 0, "", <<>>)

RECURSIVE Lookup(_, _)

\* The value of a nested dict at a key path.
Lookup(d, path) ==
  IF path = <<>> THEN d
  ELSE IF d.kind = "dict" /\ Has(d, Head(path)) THEN Lookup(Get(d, Head(path)), Tail(path))
  ELSE Missing

IsPrefix(a, b) == Len(a) <= Len(b) /\ SubSeq(b, 1, Len(a)) = a

\* make_default() of the same class with no overrides.
MdPlain == MakeDefault("Model", NoneV, md_kwargs)

ExampleCall == md_model = ExampleModel /\ MdDone /\ DataOrEmpty(md_data) = EmptyDict

\* C6 (as claimed): for name: str, count: int, tags: List[str] make_default()
\* yields name = "dummy value", count = -999999 and tags = [].
C6_Original ==
  ExampleCall =>
    MdValue = ModelV("Model", 0,
                     <<Pair(Str("name"), Str("dummy value")),
                       Pair(Str("count"), Num(-999999)),
                       Pair(Str("tags"), List(<<>>))>>)

\* C6 (amended): for name: str, count: int, tags: List[str] make_default()
\* yields name = "dummy value", count = -999999 and tags = ["dummy value"].
C6_Amended ==
  ExampleCall =>
    MdValue = ModelV("Model", 0,
                     <<Pair(Str("name"), Str("dummy value")),
                       Pair(Str("count"), Num(-999999)),
                       Pair(Str("tags"), List(<<Str("dummy value")>>))>>)

\* C6 witness: make_default() has returned an instance of the example model.
C6_Witness == ExampleCall /\ md_data = NoneV /\ MdValue.kind = "model"

HasStatic(field) == field.default # Undefined /\ field.default # NoneV

SpecialNames ==
  {"read_pattern", "p_exptype", "coordinate_distortion_transform", "tweakreg_catalog_name"}

\* Rule 6 as the claim words it; Missing where it names no default.
ExpectedScalar(type, kwargs) ==
  IF type \in ModelTypes THEN MakeDefault(type, NoneV, kwargs)
  ELSE IF type \in {"int", "float"} THEN Num(-999999)
  ELSE IF type = "str" THEN Str("dummy value")
  ELSE IF type = "bool" THEN Bool(FALSE)
  ELSE IF type \in EnumTypes THEN Str(Head(EnumMembers(type)))
  ELSE Missing

\* The rule that decides a field: the first one that applies.
RuleOf(field) ==
  IF HasStatic(field) THEN 1
  ELSE IF field.adaptor THEN 2
  ELSE IF FieldName(field.name) \in SpecialNames THEN 3
  ELSE IF field.origin = "dict" THEN 4
  ELSE IF field.origin = "list" THEN 5
  ELSE 6

\* C9: the defaults dict gives each field the value of the first applicable
\* rule, static default, adaptor, special case, mapping, sequence, scalar, and
\* leaves a field out when no rule yields a value; building it never fails.
C9_RuleOrder ==
  MdDone =>
    /\ MdDefaults.kind = "dict"
    /\ \A i \in 1..Len(md_model) :
         LET field == md_model[i]
             key == Str(FieldName(field.name))
             rule == RuleOf(field)
             value == Get(MdDefaults, key)
         IN  /\ rule = 1 => (Has(MdDefaults, key) /\ value = field.default)
             /\ rule = 2 => (Has(MdDefaults, key) /\ value = V("adaptor", 0, md_kwargs, <<>>))
             /\ rule = 3 => (Has(MdDefaults, key) /\ value = SpecialCases(FieldName(field.name)))
             /\ rule = 4 =>
                  /\ Has(MdDefaults, key) /\ value.kind = "dict"
                  /\ LET keys == IF field.name = "phot_table" THEN PhotTableKeys
                                 ELSE <<ExpectedScalar(field.args[1], md_kwargs)>>
                     IN  /\ Len(value.items) = Len(keys)
                         /\ \A j \in 1..Len(keys) :
                              /\ KeyAt(value, j) = keys[j]
                              /\ ValueAt(value, j) = ExpectedScalar(field.args[2], md_kwargs)
             /\ rule = 5 =>
                  /\ Has(MdDefaults, key) /\ value.kind = "list"
                  /\ Len(value.items) = Len(field.args)
                  /\ \A j \in 1..Len(field.args) :
                       LET want == ExpectedScalar(field.args[j], md_kwargs)
                       IN  value.items[j] = IF want = Missing THEN NoneV ELSE want
             /\ rule = 6 =>
                  IF ExpectedScalar(field.type, md_kwargs) = Missing
                  THEN ~Has(MdDefaults, key)
                  ELSE Has(MdDefaults, key) /\ value = ExpectedScalar(field.type, md_kwargs)

\* C9 witness: one field took the adaptor's default although the special-case
\* table names it, and another, of a type no rule knows, was left out.
C9_Witness ==
  /\ MdDone /\ Len(md_model) = 2 /\ md_kwargs = "shape"
  /\ md_model[1].name = "blob" /\ RuleOf(md_model[1]) = 6
  /\ md_model[2].name = "read_pattern" /\ RuleOf(md_model[2]) = 2
  /\ ~Has(MdDefaults, Str("blob"))
  /\ Get(MdDefaults, Str("read_pattern")) = V("adaptor", 0, "shape", <<>>)

(***************************************************************************)
(* Properties of the tree serializer and the flattener (specification      *)
(* SpecTree)                                                               *)
(***************************************************************************)

TrResult == tr_result.items[1]

TrBefore == tr_result.items[2]

RECURSIVE TreeMatches(_, _)

\* Tree t is what the claim says of value v: an untagged instance is replaced
\* by its own tree (one entry per field, in order, under the external name), a
\* tagged instance is the very same object, a mapping keeps its keys and a
\* sequence its order, an enum member gives its value and any other value is
\* passed through.  Nothing below a tagged instance is looked at.
TreeMatches(v, t) ==
  IF v.kind = "model" /\ v.str \in TaggedClasses THEN t = v
  ELSE IF v.kind = "model"
  THEN /\ t.kind = "dict" /\ Len(t.items) = Len(v.items)
       /\ \A i \in 1..Len(v.items) :
            /\ KeyAt(t, i) = Str(FieldName(KeyAt(v, i).str))
            /\ TreeMatches(ValueAt(v, i), ValueAt(t, i))
  ELSE IF v.kind = "dict"
  THEN /\ t.kind = "dict" /\ Len(t.items) = Len(v.items)
       /\ \A i \in 1..Len(v.items) :
            KeyAt(t, i) = KeyAt(v, i) /\ TreeMatches(ValueAt(v, i), ValueAt(t, i))
  ELSE IF v.kind = "list"
  THEN /\ t.kind = "list" /\ Len(t.items) = Len(v.items)
       /\ \A i \in 1..Len(v.items) : TreeMatches(v.items[i], t.items[i])
  ELSE IF v.kind = "enum" THEN t = Str(v.str)
  ELSE t = v

\* C7: in the tree of to_asdf_tree every untagged nested instance reached
\* through fields, mapping values and list elements is replaced by its own
\* tree, every tagged instance reached that way is the same object, untouched
\* inside, and the instance is as it was before the call.
C7_TreeStopsAtTags ==
  tr_result.kind = "to_asdf_tree" =>
    /\ tr_root = TrBefore
    /\ TreeMatches(TrBefore, TrResult)

\* C7 witness: the tree of an instance whose mapping field holds an untagged
\* and a tagged instance; the tagged one is in the tree as it is.
C7_Witness ==
  /\ tr_result.kind = "to_asdf_tree"
  /\ Get(tr_root, Str("data")).kind = "dict"
  /\ Get(Get(TrResult, Str("data")), Str("k2")) = TaggedInstance
  /\ Get(Get(TrResult, Str("data")), Str("k1")).kind = "dict"

IsLeaf(v) == v.kind \notin {"model", "dict", "list", "enum"}

RECURSIVE LeafListFields(_, _)

\* The fields, at any depth below models and mappings, that hold a list of
\* leaves: pairs of the field's path and the list.
LeafListFields(v, path) ==
  IF v.kind \in {"model", "dict"}
  THEN UNION {LeafListFields(ValueAt(v, i), Append(path, KeyAt(v, i).str)) :
                i \in 1..Len(v.items)}
  ELSE IF v.kind = "list" /\ \A i \in 1..Len(v.items) : IsLeaf(v.items[i])
  THEN {<<path, v>>}
  ELSE {}

RECURSIVE Dotted(_)

\* The dotted form of a path of names.
Dotted(path) ==
  IF Len(path) = 0 THEN ""
  ELSE IF Len(path) = 1 THEN path[1]
  ELSE Dotted(SubSeq(path, 1, Len(path) - 1)) \o "." \o path[Len(path)]

\* C8: for a list field of N leaves flat_items(flatten_lists=True) yields
\* exactly N entries, in element order, at the field's path followed by .0 to
\* .N-1, each with its element; flat_items(flatten_lists=False) yields exactly
\* one entry, at the field's path, whose value is the whole list.
C8_ListFlattening ==
  tr_result.kind = "flat_items" =>
    \A f \in LeafListFields(TrBefore, <<>>) :
      LET items == TrResult.items
          at == Dotted(f[1])
          list == f[2]
          n == Len(list.items)
          indexed == {Str(at \o "." \o ToString(j)) : j \in 0..(n - 1)}
          entries == {i \in 1..Len(items) : items[i].items[1] \in indexed \cup {Str(at)}}
      IN  IF tr_result.num = 1
          THEN /\ Cardinality(entries) = n
               /\ \E k \in 0..(Len(items) - n) :
                    \A j \in 1..n :
                      items[k + j] = Pair(Str(at \o "." \o ToString(j - 1)), list.items[j])
          ELSE /\ Cardinality(entries) = 1
               /\ \A i \in entries : items[i] = Pair(Str(at), list)

\* C8 witness: a nested list field of two leaves was flattened into its two
\* entries.
C8_Witness ==
  /\ tr_result.kind = "flat_items" /\ tr_result.num = 1
  /\ <<<<"data", "tags">>, List(<<Num(1), Str("a")>>)>> \in LeafListFields(tr_root, <<>>)
  /\ \E i \in 1..Len(TrResult.items) : TrResult.items[i] = Pair(Str("data.tags.1"), Str("a"))

====
